---- MODULE Spec2Model ----
(***************************************************************************)
(* A state-machine model of the lossless perceptron: the training loop of  *)
(* networks/perceptron.go with its learn and getLoss goroutines, the layer *)
(* primitives it drives, and the shift algebra of layers/layer.go.         *)
(*                                                                         *)
(* Numbers.  float64 values are modelled by integers in exact arithmetic.  *)
(* An activation v stands for v/One; products keep their full precision    *)
(* (no rescaling), so every + and * of the code is the same + and * here.  *)
(* The only transcendental function, sigmoid, is modelled by its first     *)
(* order expansion around 0 clamped to [0,1] (see sigmoid below).          *)
(*                                                                         *)
(* Memory.  A []float64 backing array is a cell of mem, named by a         *)
(* location.  mat.NewDense(r, c, data) wraps data without copying, so a    *)
(* matrix is a location and two matrices may be the same location.         *)
(***************************************************************************)
EXTENDS Integers, Sequences, FiniteSets, TLC

VARIABLES
    Layers,          \* network.Layers: sequence of layer records
    BatchSize,       \* network.BatchSize
    dataset,         \* Train's dataset: sequence of DataPoint records
    testingData,     \* Train's testingData / getTotalLoss's dataset
    mem,             \* backing arrays: location -> sequence of numbers
    tpc,             \* position of the goroutine that runs Train
    datapointIndex,  \* Train local
    epochs,          \* Train local
    item,            \* Train local: loop counter of the two item loops
    shifts,          \* Train local: per-layer accumulator (shift references)
    batches,         \* number of batches started (bounds the deadline loop)
    gor,             \* the learn goroutines of the batch in flight
    shiftHeap,       \* ShiftType objects: reference -> shift record
    lossgor,         \* the getLoss goroutines of the getTotalLoss in flight
    lpc,             \* position inside getTotalLoss
    loss,            \* getTotalLoss local
    correctGuesses,  \* getTotalLoss local
    valuesRecieved,  \* getTotalLoss local (the source's spelling)
    caller,          \* a program calling Evaluate and GetErrors directly
    numInputs,       \* network.numInputs
    codec,           \* the Initialize, ToBytes or FromBytes call in progress
    hist             \* history (ghost) record, read only by properties

vars == <<Layers, BatchSize, dataset, testingData, mem, tpc, datapointIndex,
          epochs, item, shifts, batches, gor, shiftHeap, lossgor, lpc, loss,
          correctGuesses, valuesRecieved, caller, numInputs, codec, hist>>

----------------------------------------------------------------------------
(* Bounds of the model *)

MaxBatchSize == 2

MaxBatches == 2

MaxData == 2

MaxTest == 2

MaxCalls == 2

----------------------------------------------------------------------------
(* Numbers of the program, in the model's units *)

\* The number 1 of sigmoidlayer.go (1/(1+exp(-x)), val*(1-val)): activations
\* live on a grid of quarters, so 1 is 4 grid units.
One == 4

\* network.LearningRate, a positive factor; its default is the model's unit.
LearningRate == 1

----------------------------------------------------------------------------
(* Vectors and matrices: a mat.Dense is its row-major data *)

RECURSIVE SumSeq(_)
SumSeq(s) == IF s = <<>> THEN 0 ELSE Head(s) + SumSeq(Tail(s))

VecAdd(a, b) == [i \in 1..Len(a) |-> a[i] + b[i]]

VecSub(a, b) == [i \in 1..Len(a) |-> a[i] - b[i]]

VecScale(s, a) == [i \in 1..Len(a) |-> s * a[i]]

Clamp(v, lo, hi) == IF v < lo THEN lo ELSE IF v > hi THEN hi ELSE v

----------------------------------------------------------------------------
(* Layers *)

SigmoidLayer(n) == [kind |-> "Sigmoid", n_inputs |-> n]

LinearLayer(nin, nout, w, b) ==
    [kind |-> "Linear", n_inputs |-> nin, n_outputs |-> nout,
     weights |-> w, biases |-> b]

\* The layers KernelShift.Apply and LSTMShift.Apply assert and the fields
\* they add into: Conv2DLayer.kernels, and the four gates of an LSTMLayer,
\* each a layer of its own.
Conv2DLayer(ks) == [kind |-> "Conv2D", kernels |-> ks]

LSTMLayer(f, i, c, o) ==
    [kind |-> "LSTM", forgetGate |-> f, inputGate |-> i, candidateGate |-> c,
     outputGate |-> o]

\* sigmoidlayer.go sigmoid: 1/(1+exp(-x)).  With x = v/One the first order
\* expansion 1/2 + x/4, clamped to [0,1] and truncated to the grid, is
\* (v + 2*One) \div 4 clamped to 0..One.  It is monotone, maps into
\* [0,1] and is not the identity, which is all the model relies on.
sigmoid(x) == Clamp((x + 2 * One) \div 4, 0, One)

\* The value Dense.Apply(sigmoid) computes from the matrix data v.
SigmoidPass(v) == [i \in 1..Len(v) |-> sigmoid(v[i])]

\* The value SigmoidLayer.Back stores into forwardGradients:
\* v * val * (1 - val), val read from outputs.
SigmoidBack(outputs, fg) ==
    [i \in 1..Len(fg) |-> fg[i] * outputs[i] * (One - outputs[i])]

\* Linear layer (its source file is not part of src/; modelled from the
\* specification: Pass = weights.input + bias, gradient w.r.t. weights =
\* upstream.input^T, w.r.t. bias = upstream, w.r.t. input = weights^T.upstream).
LinearPass(layer, x) ==
    [i \in 1..layer.n_outputs |->
        SumSeq([j \in 1..layer.n_inputs |->
                   layer.weights[(i - 1) * layer.n_inputs + j] * x[j]])
        + layer.biases[i]]

LinearBackWeights(layer, input, g) ==
    [k \in 1..(layer.n_outputs * layer.n_inputs) |->
        g[((k - 1) \div layer.n_inputs) + 1] * input[((k - 1) % layer.n_inputs) + 1]]

LinearBackGradient(layer, g) ==
    [j \in 1..layer.n_inputs |->
        SumSeq([i \in 1..layer.n_outputs |->
                   layer.weights[(i - 1) * layer.n_inputs + j] * g[i]])]

\* Layers whose Pass works in place on the matrix it is given.
InPlace(layer) == layer.kind = "Sigmoid"

\* The trainable parameters of a layer stack (what Apply may change).
Params(ls) ==
    [i \in 1..Len(ls) |->
        IF ls[i].kind = "Linear" THEN <<ls[i].weights, ls[i].biases>> ELSE <<>>]

----------------------------------------------------------------------------
(* Shifts: objects of a heap h (reference -> record), as the code passes    *)
(* pointers to NilShift, WeightShift, KernelShift and LSTMShift values.     *)

NoShift == [kind |-> "None"]

NilShift == [kind |-> "Nil"]

WeightShift(w, b) == [kind |-> "Weight", weightShift |-> w, biasShift |-> b]

KernelShift(ks) == [kind |-> "Kernel", shifts |-> ks]

LSTMShift(f, i, c, o) ==
    [kind |-> "LSTM", forgetShift |-> f, inputShift |-> i,
     candidateShift |-> c, outputShift |-> o]

\* The value of a shift with its sub-shifts followed (for comparisons).
RECURSIVE ShiftValue(_, _)
ShiftValue(h, r) ==
    IF h[r].kind = "LSTM"
    THEN <<"LSTM", ShiftValue(h, h[r].forgetShift), ShiftValue(h, h[r].inputShift),
           ShiftValue(h, h[r].candidateShift), ShiftValue(h, h[r].outputShift)>>
    ELSE <<h[r]>>

\* A failed type assertion or a gonum shape panic: the goroutine dies.
Panic(h, r) == [heap |-> h, ret |-> r, ok |-> FALSE]

\* Dense.Add(a, b): elementwise sum, panics unless the shapes agree.
SameShape(a, b) == Len(a) = Len(b)

\* A Combine that keeps the argument's matrices instead of adding them.
WeightCombineLast(w, w2) ==
    [w EXCEPT !.weightShift = w2.weightShift, !.biasShift = w2.biasShift]

\* WeightShift.Combine, on the receiver's matrices.
WeightCombine(w, w2) ==
    [w EXCEPT !.weightShift = VecAdd(w.weightShift, w2.weightShift),
              !.biasShift = VecAdd(w.biasShift, w2.biasShift)]

\* A Combine whose loop stops before the last kernel.
KernelCombineShort(k, k2) ==
    [k EXCEPT !.shifts = [i \in 1..Len(k.shifts) |->
                             IF i < Len(k.shifts) THEN VecAdd(k.shifts[i], k2.shifts[i])
                             ELSE k.shifts[i]]]

\* KernelShift.Combine, on the receiver's matrices.
KernelCombine(k, k2) ==
    [k EXCEPT !.shifts = [i \in 1..Len(k.shifts) |-> VecAdd(k.shifts[i], k2.shifts[i])]]

\* A Combine with receiver and argument mixed up: it accumulates into the
\* argument and returns it.
CombineIntoArgument(h, r, o) ==
    CASE h[r].kind = "Weight" /\ h[o].kind = "Weight" ->
            [heap |-> [h EXCEPT ![o] = WeightCombine(h[o], h[r])], ret |-> o, ok |-> TRUE]
      [] h[r].kind = "Kernel" /\ h[o].kind = "Kernel" ->
            [heap |-> [h EXCEPT ![o] = KernelCombine(h[o], h[r])], ret |-> o, ok |-> TRUE]
      [] OTHER -> [heap |-> h, ret |-> o, ok |-> TRUE]

\* receiver.Combine(other): the heap afterwards, the reference returned, and
\* whether the call returned at all.
RECURSIVE Combine(_, _, _)
Combine(h, r, o) ==
    CASE h[r].kind = "Nil" ->
            [heap |-> h, ret |-> o, ok |-> TRUE]
      [] h[r].kind = "Weight" ->
            IF h[o].kind # "Weight" THEN Panic(h, r)
            ELSE IF ~(SameShape(h[r].weightShift, h[o].weightShift)
                      /\ SameShape(h[r].biasShift, h[o].biasShift)) THEN Panic(h, r)
            ELSE [heap |-> [h EXCEPT ![r] = WeightCombine(h[r], h[o])],
                  ret |-> r, ok |-> TRUE]
      [] h[r].kind = "Kernel" ->
            IF h[r].shifts = <<>> THEN [heap |-> h, ret |-> r, ok |-> TRUE]
            ELSE IF h[o].kind # "Kernel" THEN Panic(h, r)
            ELSE IF Len(h[o].shifts) < Len(h[r].shifts) THEN Panic(h, r)
            ELSE IF \E i \in 1..Len(h[r].shifts) :
                        ~SameShape(h[r].shifts[i], h[o].shifts[i]) THEN Panic(h, r)
            ELSE [heap |-> [h EXCEPT ![r] = KernelCombine(h[r], h[o])],
                  ret |-> r, ok |-> TRUE]
      [] h[r].kind = "LSTM" ->
            IF h[o].kind # "LSTM" THEN Panic(h, r)
            ELSE
              LET c1 == Combine(h, h[r].forgetShift, h[o].forgetShift)
                  h1 == [c1.heap EXCEPT ![r].forgetShift = c1.ret]
                  c2 == Combine(h1, h1[r].inputShift, h1[o].inputShift)
                  h2 == [c2.heap EXCEPT ![r].inputShift = c2.ret]
                  c3 == Combine(h2, h2[r].candidateShift, h2[o].candidateShift)
                  h3 == [c3.heap EXCEPT ![r].candidateShift = c3.ret]
                  c4 == Combine(h3, h3[r].outputShift, h3[o].outputShift)
                  h4 == [c4.heap EXCEPT ![r].outputShift = c4.ret]
              IN  IF ~c1.ok THEN Panic(c1.heap, r)
                  ELSE IF ~c2.ok THEN Panic(c2.heap, r)
                  ELSE IF ~c3.ok THEN Panic(c3.heap, r)
                  ELSE IF ~c4.ok THEN Panic(c4.heap, r)
                  ELSE [heap |-> h4, ret |-> r, ok |-> TRUE]

\* Dense.Scale(scale, m) followed by Dense.Add(p, p, m): the new parameter.
ScaledShift(scale, m) == VecScale(scale, m)

\* The type assertion on the layer in Apply fails: the layer is not of the
\* wanted type.
WrongKind(layerKind, wanted) == layerKind # wanted

\* A call of Apply that panicked with the heap and the layer as they then are.
ApplyPanic(h, layer) == [heap |-> h, layer |-> layer, ok |-> FALSE]

\* KernelShift.Apply from kernel i on: each iteration scales the shift's
\* matrix, then asserts the layer's type, indexes its kernels and adds.
RECURSIVE ApplyKernels(_, _, _, _, _)
ApplyKernels(h, layer, r, scale, i) ==
    IF i > Len(h[r].shifts) THEN [heap |-> h, layer |-> layer, ok |-> TRUE]
    ELSE LET m  == ScaledShift(scale, h[r].shifts[i])
             h1 == [h EXCEPT ![r].shifts[i] = m]
         IN  IF WrongKind(layer.kind, "Conv2D") THEN ApplyPanic(h1, layer)
             ELSE IF i > Len(layer.kernels) THEN ApplyPanic(h1, layer)
             ELSE IF ~SameShape(layer.kernels[i], m) THEN ApplyPanic(h1, layer)
             ELSE ApplyKernels(h1, [layer EXCEPT !.kernels[i] = VecAdd(@, m)],
                               r, scale, i + 1)


\* shift.Apply(layer, scale): the heap and the layer afterwards, and whether
\* the call returned.  WeightShift.Apply scales its own matrices first, then
\* asserts the layer's type, then adds; LSTMShift.Apply asserts first and
\* then applies its four sub-shifts to the four gates in turn.
RECURSIVE Apply(_, _, _, _)
Apply(h, layer, r, scale) ==
    CASE h[r].kind = "Nil" ->
            [heap |-> h, layer |-> layer, ok |-> TRUE]
      [] h[r].kind = "Weight" ->
            LET w  == ScaledShift(scale, h[r].weightShift)
                b  == ScaledShift(scale, h[r].biasShift)
                h1 == [h EXCEPT ![r].weightShift = w, ![r].biasShift = b]
            IN  IF WrongKind(layer.kind, "Linear") THEN ApplyPanic(h1, layer)
                ELSE IF ~SameShape(layer.weights, w) THEN ApplyPanic(h1, layer)
                ELSE IF ~SameShape(layer.biases, b)
                THEN ApplyPanic(h1, [layer EXCEPT !.weights = VecAdd(layer.weights, w)])
                ELSE [heap |-> h1,
                      layer |-> [layer EXCEPT !.weights = VecAdd(layer.weights, w),
                                              !.biases = VecAdd(layer.biases, b)],
                      ok |-> TRUE]
      [] h[r].kind = "Kernel" -> ApplyKernels(h, layer, r, scale, 1)
      [] h[r].kind = "LSTM" ->
            IF WrongKind(layer.kind, "LSTM") THEN ApplyPanic(h, layer)
            ELSE
              LET a1 == Apply(h, layer.forgetGate, h[r].forgetShift, scale)
                  l1 == [layer EXCEPT !.forgetGate = a1.layer]
                  a2 == Apply(a1.heap, l1.inputGate, h[r].inputShift, scale)
                  l2 == [l1 EXCEPT !.inputGate = a2.layer]
                  a3 == Apply(a2.heap, l2.candidateGate, h[r].candidateShift, scale)
                  l3 == [l2 EXCEPT !.candidateGate = a3.layer]
                  a4 == Apply(a3.heap, l3.outputGate, h[r].outputShift, scale)
                  l4 == [l3 EXCEPT !.outputGate = a4.layer]
              IN  IF ~a1.ok THEN ApplyPanic(a1.heap, l1)
                  ELSE IF ~a2.ok THEN ApplyPanic(a2.heap, l2)
                  ELSE IF ~a3.ok THEN ApplyPanic(a3.heap, l3)
                  ELSE IF ~a4.ok THEN ApplyPanic(a4.heap, l4)
                  ELSE [heap |-> a4.heap, layer |-> l4, ok |-> TRUE]

----------------------------------------------------------------------------
(* Memory locations and the goroutines' records *)

NoLoc == <<"none", 0, 0>>

InLoc(d) == <<"in", d, 0>>       \* backing array of a training item's Input

TestLoc(t) == <<"tin", t, 0>>    \* backing array of a testing item's Input

ActLoc(g, i) == <<"act", g, i>>  \* matrix allocated by layer i's Pass in learn g

GradLoc(g, i) == <<"grad", g, i>> \* gradient handed to layer i's Back in learn g

\* Who allocated a location: the caller's data, or goroutine <<kind, id>>.
Owner(loc) ==
    CASE loc[1] \in {"in", "tin"} -> <<"data", 0>>
      [] loc[1] \in {"act", "grad"} -> <<"learn", loc[2]>>
      [] OTHER -> <<"none", 0>>

Locs(nLayers, nData, nTest) ==
    {InLoc(d) : d \in 1..nData} \cup {TestLoc(t) : t \in 1..nTest}
    \cup {ActLoc(g, i) : g \in 1..MaxBatchSize, i \in 1..nLayers}
    \cup {GradLoc(g, i) : g \in 1..MaxBatchSize, i \in 1..nLayers + 1}

DataPoint(in, out) == [Input |-> in, Output |-> out]

IdleLearn ==
    [pc |-> "idle", li |-> 0, target |-> <<>>, inputMat |-> NoLoc,
     inputCache |-> <<>>, gradientMat |-> NoLoc, shifts |-> <<>>, tmp |-> <<>>]

IdleGetLoss == [pc |-> "idle", datapoint |-> 0, loss |-> 0, wasCorrect |-> FALSE]

NumLayers == Len(Layers)

\* Reference of the shift that learn g's Back of layer i returns; g = 0 names
\* the NilShift objects of getEmptyShift.
ShiftRef(g, i) == <<g, i>>

NoRef == <<-1, 0>>

ShiftRefs(nLayers) == {ShiftRef(g, i) : g \in 0..MaxBatchSize, i \in 1..nLayers}

\* Storage of one batch given back: the goroutines are gone and nothing
\* refers to their matrices and shifts any more.
FreedMem(m) == [l \in DOMAIN m |-> IF l[1] \in {"act", "grad"} THEN <<>> ELSE m[l]]

FreedHeap(h) == [r \in DOMAIN h |-> NoShift]

----------------------------------------------------------------------------
(* learn: one goroutine per dispatched sample *)

\* A write of the matrix at loc by goroutine who, noted when who did not
\* allocate loc.
NoteWrite(h, who, loc) ==
    IF Owner(loc) = who THEN h
    ELSE [h EXCEPT !.foreign = @ \cup {<<who, loc>>}]

\* The call layer.Pass(inputMat) of layer i, noted with the matrix given and
\* the matrix returned.
NotePass(h, g, i, in, out) ==
    [h EXCEPT !.calls[g] = Append(@, [op |-> "Pass", layer |-> i, input |-> in,
                                      output |-> out])]

\* The call layer.Back(inputCache[i], inputCache[i+1], gradientMat) of layer
\* i, noted with its arguments and the two values it returns.
NoteBack(h, g, i, in, out, fg, shift, ret) ==
    [h EXCEPT !.calls[g] = Append(@, [op |-> "Back", layer |-> i, input |-> in,
                                      output |-> out, gradient |-> fg,
                                      shift |-> shift, ret |-> ret])]

\* perceptron.go:73-76 for one layer whose Pass allocates its output.
LearnPass(g) ==
    /\ gor[g].pc = "pass"
    /\ gor[g].li <= NumLayers
    /\ ~InPlace(Layers[gor[g].li])
    /\ LET i   == gor[g].li
           out == ActLoc(g, i)
       IN  /\ mem' = [mem EXCEPT ![out] = LinearPass(Layers[i], mem[gor[g].inputMat])]
           /\ gor' = [gor EXCEPT ![g].inputCache = Append(@, gor[g].inputMat),
                                 ![g].inputMat = out,
                                 ![g].li = i + 1]
           /\ hist' = NotePass(hist, g, i, gor[g].inputMat, out)
    /\ UNCHANGED <<caller, Layers, numInputs, codec, BatchSize, dataset, testingData, tpc, datapointIndex,
                   epochs, item, shifts, batches, shiftHeap, lossgor, lpc, loss,
                   correctGuesses, valuesRecieved>>

\* perceptron.go:73-76 for an in-place layer, first half: Dense.Apply reads
\* the matrix and computes the new values.
LearnPassRead(g) ==
    /\ gor[g].pc = "pass"
    /\ gor[g].li <= NumLayers
    /\ InPlace(Layers[gor[g].li])
    /\ gor' = [gor EXCEPT ![g].inputCache = Append(@, gor[g].inputMat),
                          ![g].tmp = SigmoidPass(mem[gor[g].inputMat]),
                          ![g].pc = "passw"]
    /\ hist' = NotePass(hist, g, gor[g].li, gor[g].inputMat, gor[g].inputMat)
    /\ UNCHANGED <<caller, Layers, numInputs, codec, BatchSize, dataset, testingData, mem, tpc,
                   datapointIndex, epochs, item, shifts, batches, shiftHeap,
                   lossgor, lpc, loss, correctGuesses, valuesRecieved>>

\* Second half: Dense.Apply stores them into the same matrix, which Pass
\* returns.
LearnPassWrite(g) ==
    /\ gor[g].pc = "passw"
    /\ mem' = [mem EXCEPT ![gor[g].inputMat] = gor[g].tmp]
    /\ hist' = NoteWrite(hist, <<"learn", g>>, gor[g].inputMat)
    /\ gor' = [gor EXCEPT ![g].tmp = <<>>, ![g].pc = "pass", ![g].li = @ + 1]
    /\ UNCHANGED <<caller, Layers, numInputs, codec, BatchSize, dataset, testingData, tpc, datapointIndex,
                   epochs, item, shifts, batches, shiftHeap, lossgor, lpc, loss,
                   correctGuesses, valuesRecieved>>

\* The gradient with its sign reversed.
LossGradientReversed(target, output) == VecSub(output, target)

\* perceptron.go:80-83: gradient[i] = target[i] - output[i].
LossGradient(target, output) == VecSub(target, output)

\* perceptron.go:77-89: the loss gradient and the empty shift list.
LearnGrad(g) ==
    /\ gor[g].pc = "pass"
    /\ gor[g].li > NumLayers
    /\ LET gl == GradLoc(g, NumLayers + 1)
       IN  /\ mem' = [mem EXCEPT ![gl] = LossGradient(gor[g].target, mem[gor[g].inputMat])]
           /\ gor' = [gor EXCEPT ![g].inputCache = Append(@, gor[g].inputMat),
                                 ![g].gradientMat = gl,
                                 ![g].shifts = [i \in 1..NumLayers |-> NoRef],
                                 ![g].li = NumLayers,
                                 ![g].pc = IF NumLayers = 0 THEN "send" ELSE "back"]
           /\ hist' = [hist EXCEPT !.grads[g] =
                          <<[target |-> gor[g].target,
                             prediction |-> mem[gor[g].inputMat],
                             gradient |-> mem'[gl]]>>]
    /\ UNCHANGED <<caller, Layers, numInputs, codec, BatchSize, dataset, testingData, tpc, datapointIndex,
                   epochs, item, shifts, batches, shiftHeap, lossgor, lpc, loss,
                   correctGuesses, valuesRecieved>>

\* The shift of layer i stored in the slot of the other end of the list.
ShiftIndexMirrored(i) == NumLayers + 1 - i

\* perceptron.go:94: shifts[i] = shift.
ShiftIndex(i) == i

\* perceptron.go:90-95 for one layer: layer.Back(inputCache[i],
\* inputCache[i+1], gradientMat).
LearnBack(g) ==
    /\ gor[g].pc = "back"
    /\ LET i     == gor[g].li
           layer == Layers[i]
           fg    == gor[g].gradientMat
           ref   == ShiftRef(g, i)
           next  == [gor EXCEPT ![g].shifts[ShiftIndex(i)] = ref,
                                ![g].li = i - 1,
                                ![g].pc = IF i = 1 THEN "send" ELSE "back"]
       IN  IF layer.kind = "Sigmoid"
           THEN \* Back overwrites forwardGradients and returns it
                /\ mem' = [mem EXCEPT ![fg] =
                              SigmoidBack(mem[gor[g].inputCache[i + 1]], mem[fg])]
                /\ hist' = NoteBack(NoteWrite(hist, <<"learn", g>>, fg), g, i,
                                     gor[g].inputCache[i], gor[g].inputCache[i + 1],
                                     fg, ref, fg)
                /\ shiftHeap' = [shiftHeap EXCEPT ![ref] = NilShift]
                /\ gor' = next
           ELSE \* Back returns a new WeightShift and a new gradient matrix
                /\ mem' = [mem EXCEPT ![GradLoc(g, i)] =
                              LinearBackGradient(layer, mem[fg])]
                /\ hist' = NoteBack(hist, g, i, gor[g].inputCache[i],
                                     gor[g].inputCache[i + 1], fg, ref, GradLoc(g, i))
                /\ shiftHeap' = [shiftHeap EXCEPT ![ref] =
                       WeightShift(LinearBackWeights(layer, mem[gor[g].inputCache[i]], mem[fg]),
                                   mem[fg])]
                /\ gor' = [next EXCEPT ![g].gradientMat = GradLoc(g, i)]
    /\ UNCHANGED <<caller, Layers, numInputs, codec, BatchSize, dataset, testingData, tpc, datapointIndex,
                   epochs, item, shifts, batches, lossgor, lpc, loss,
                   correctGuesses, valuesRecieved>>

----------------------------------------------------------------------------
(* Train: the batch loop *)

\* perceptron.go:164-170.
getEmptyShift(h, nLayers) ==
    [r \in DOMAIN h |-> IF r[1] = 0 /\ r[2] \in 1..nLayers THEN NilShift ELSE h[r]]

\* perceptron.go:198, the dispatch loop's condition.
DispatchMore(i) == i < BatchSize

\* The collecting loop stopping one result short.
CollectMoreShort(i) == i + 1 < BatchSize

\* perceptron.go:212, the collecting loop's condition.
CollectMore(i) == i < BatchSize

\* rand.Shuffle: any permutation of the items.
Shuffles(d) ==
    {[i \in 1..Len(d) |-> d[p[i]]] :
        p \in {q \in [1..Len(d) -> 1..Len(d)] :
                  \A a, b \in 1..Len(d) : q[a] = q[b] => a = b}}

\* The deadline also tested inside the collecting loop.
DeadlineTestedMidBatch == tpc \in {"check", "collect"}

\* perceptron.go:191: time.Since(start) < timespan is evaluated at the head
\* of the batch loop and nowhere else.
DeadlineTested == tpc = "check"

\* perceptron.go:191-195.  The deadline is a clock reading: either outcome of
\* the comparison is possible at every test; MaxBatches bounds the run.
TrainCheck ==
    /\ DeadlineTested
    /\ \/ /\ batches < MaxBatches
          /\ tpc' = "dispatch"
          /\ batches' = batches + 1
          /\ shifts' = [i \in 1..NumLayers |-> ShiftRef(0, i)]
          /\ shiftHeap' = getEmptyShift(shiftHeap, NumLayers)
          /\ item' = 0
          /\ hist' = [hist EXCEPT !.before = Params(Layers),
                                  !.sent = [g \in 1..MaxBatchSize |-> <<>>],
                                  !.order = <<>>]
       \/ /\ tpc' = "final"
          /\ UNCHANGED <<caller, batches, shifts, shiftHeap, item, hist>>
    /\ UNCHANGED <<caller, Layers, numInputs, codec, BatchSize, dataset, testingData, mem, datapointIndex,
                   epochs, gor, lossgor, lpc, loss, correctGuesses, valuesRecieved>>

\* A wrap that lets the index reach len(dataset) first.
WrapsLate(index) == index > Len(dataset)

\* perceptron.go:204: datapointIndex >= len(dataset), after the increment.
Wraps(index) == index >= Len(dataset)

\* perceptron.go:198-209, one iteration.
TrainDispatch ==
    /\ tpc = "dispatch"
    /\ DispatchMore(item)
    /\ LET datapoint == dataset[datapointIndex + 1]
           g == item + 1
       IN  gor' = [gor EXCEPT ![g] =
                      [IdleLearn EXCEPT !.pc = "pass", !.li = 1,
                                        !.inputMat = datapoint.Input,
                                        !.target = datapoint.Output]]
    /\ IF Wraps(datapointIndex + 1)
       THEN /\ datapointIndex' = 0
            /\ dataset' \in Shuffles(dataset)
            /\ epochs' = epochs + 1
       ELSE /\ datapointIndex' = datapointIndex + 1
            /\ UNCHANGED <<caller, dataset, epochs>>
    /\ item' = item + 1
    /\ hist' = [hist EXCEPT !.dispatched =
                                Append(@, [index |-> datapointIndex,
                                           next |-> datapointIndex',
                                           epochs |-> epochs',
                                           shuffled |-> dataset' # dataset]),
                            !.calls[item + 1] = <<>>,
                            !.grads[item + 1] = <<>>]
    /\ UNCHANGED <<caller, Layers, numInputs, codec, BatchSize, testingData, mem, tpc, shifts, batches,
                   shiftHeap, lossgor, lpc, loss, correctGuesses, valuesRecieved>>

\* perceptron.go:198 false, 212 reached.
TrainDispatchDone ==
    /\ tpc = "dispatch"
    /\ ~DispatchMore(item)
    /\ tpc' = "collect"
    /\ item' = 0
    /\ UNCHANGED <<caller, Layers, numInputs, codec, BatchSize, dataset, testingData, mem, datapointIndex,
                   epochs, shifts, batches, gor, shiftHeap, lossgor, lpc, loss,
                   correctGuesses, valuesRecieved, hist>>

\* perceptron.go:214-216: shifts[i] = shifts[i].Combine(layerShift) for every
\* layer, from the first; stops at the first Combine that panics.
RECURSIVE FoldShifts(_, _, _, _)
FoldShifts(h, acc, incoming, i) ==
    IF i > Len(incoming) THEN [heap |-> h, acc |-> acc, ok |-> TRUE]
    ELSE LET c == Combine(h, acc[i], incoming[i])
         IN  IF ~c.ok THEN [heap |-> c.heap, acc |-> acc, ok |-> FALSE]
             ELSE FoldShifts(c.heap, [acc EXCEPT ![i] = c.ret], incoming, i + 1)

\* perceptron.go:97 and 212-217: the unbuffered channel hands learn g's list
\* to Train, which folds it into the accumulator.
TrainCollect(g) ==
    /\ tpc = "collect"
    /\ CollectMore(item)
    /\ gor[g].pc = "send"
    /\ LET f == FoldShifts(shiftHeap, shifts, gor[g].shifts, 1)
       IN  /\ shiftHeap' = f.heap
           /\ shifts' = f.acc
           /\ tpc' = IF f.ok THEN "collect" ELSE "panic"
    /\ gor' = [gor EXCEPT ![g].pc = "done"]
    /\ item' = item + 1
    /\ hist' = [hist EXCEPT !.sent[g] =
                   [i \in 1..Len(gor[g].shifts) |-> ShiftValue(shiftHeap, gor[g].shifts[i])],
                              !.order = Append(@, g),
                              !.calls[g] = <<>>,
                              !.grads[g] = <<>>]
    /\ UNCHANGED <<caller, Layers, numInputs, codec, BatchSize, dataset, testingData, mem, datapointIndex,
                   epochs, batches, lossgor, lpc, loss, correctGuesses,
                   valuesRecieved>>

\* perceptron.go:212 false, 220 reached.
TrainCollectDone ==
    /\ tpc = "collect"
    /\ ~CollectMore(item)
    /\ tpc' = "apply"
    /\ item' = 0
    /\ UNCHANGED <<caller, Layers, numInputs, codec, BatchSize, dataset, testingData, mem, datapointIndex,
                   epochs, shifts, batches, gor, shiftHeap, lossgor, lpc, loss,
                   correctGuesses, valuesRecieved, hist>>

\* Apply run per received result, inside the collecting loop.
ApplyReadyEarly == tpc \in {"collect", "apply"}

\* perceptron.go:220 is reached only from the end of the collecting loop.
ApplyReady == tpc = "apply"

\* perceptron.go:220-222, one iteration: shift.Apply(network.Layers[i],
\* network.LearningRate).
TrainApply ==
    /\ ApplyReady
    /\ item < Len(shifts)
    /\ LET a == Apply(shiftHeap, Layers[item + 1], shifts[item + 1], LearningRate)
       IN  /\ shiftHeap' = a.heap
           /\ Layers' = [Layers EXCEPT ![item + 1] = a.layer]
           /\ tpc' = IF a.ok THEN "apply" ELSE "panic"
    /\ item' = item + 1
    /\ UNCHANGED <<caller, numInputs, codec, BatchSize, dataset, testingData, mem, datapointIndex, epochs,
                   shifts, batches, gor, lossgor, lpc, loss, correctGuesses,
                   valuesRecieved, hist>>

\* perceptron.go:220 exhausted, back to 191.  The batch's goroutines have
\* returned; their storage is unreachable from here on.
TrainApplyDone ==
    /\ tpc = "apply"
    /\ item >= Len(shifts)
    /\ tpc' = "check"
    /\ item' = 0
    /\ gor' = [g \in DOMAIN gor |-> IdleLearn]
    /\ mem' = FreedMem(mem)
    /\ shiftHeap' = FreedHeap(shiftHeap)
    /\ shifts' = <<>>
    /\ UNCHANGED <<caller, Layers, numInputs, codec, BatchSize, dataset, testingData, datapointIndex,
                   epochs, batches, lossgor, lpc, loss, correctGuesses,
                   valuesRecieved, hist>>

----------------------------------------------------------------------------
(* Evaluate, getLoss, getTotalLoss, GetErrors *)

\* perceptron.go:45-57 from layer i on.  cur is the data of inputMat, input
\* the data of the caller's slice, aliased whether inputMat still is the
\* matrix that wraps that slice (an in-place Pass then writes the slice).
RECURSIVE EvaluateFrom(_, _, _, _, _)
EvaluateFrom(ls, i, cur, input, aliased) ==
    IF i > Len(ls) THEN [out |-> cur, input |-> input]
    ELSE IF InPlace(ls[i])
         THEN LET v == SigmoidPass(cur)
              IN  EvaluateFrom(ls, i + 1, v, IF aliased THEN v ELSE input, aliased)
         ELSE EvaluateFrom(ls, i + 1, LinearPass(ls[i], cur), input, FALSE)

\* network.Evaluate(input): the slice returned and the caller's slice after.
Evaluate(ls, input) == EvaluateFrom(ls, 1, input, input, TRUE)

\* utils.GetMaxIndex and datasets.FromOneHot are not part of src/; modelled
\* from the specification as the (first) arg-max index, counted from 0.
GetMaxIndex(v) ==
    CHOOSE i \in 0..(Len(v) - 1) :
        /\ \A j \in 0..(Len(v) - 1) : v[j + 1] <= v[i + 1]
        /\ \A j \in 0..(i - 1) : v[j + 1] < v[i + 1]

FromOneHot(v) == GetMaxIndex(v)

\* perceptron.go:113-116, in units of one half: twice the sum of
\* 0.5*(output[i]-target[i])^2.
SquaredError(output, target) ==
    SumSeq([i \in 1..Len(output) |-> (output[i] - target[i]) * (output[i] - target[i])])

\* perceptron.go:118.
WasCorrect(output, target) == GetMaxIndex(output) = FromOneHot(target)

\* perceptron.go:132-138: Train calls getTotalLoss(testingData).
LossCall ==
    /\ tpc \in {"baseline", "final"}
    /\ lpc = "idle"
    /\ lpc' = "spawn"
    /\ loss' = 0
    /\ correctGuesses' = 0
    /\ valuesRecieved' = 0
    /\ lossgor' = [k \in DOMAIN lossgor |-> IdleGetLoss]
    /\ hist' = [hist EXCEPT !.atCall = mem, !.lorder = <<>>]
    /\ UNCHANGED <<caller, Layers, numInputs, codec, BatchSize, dataset, testingData, mem, tpc,
                   datapointIndex, epochs, item, shifts, batches, gor, shiftHeap>>

\* the loop variable i of perceptron.go:139
Spawned == Cardinality({k \in DOMAIN lossgor : lossgor[k].pc # "idle"})

\* perceptron.go:139-142, one iteration.
LossSpawn ==
    /\ lpc = "spawn"
    /\ Spawned < Len(testingData)
    /\ lossgor' = [lossgor EXCEPT ![Spawned + 1] =
                      [IdleGetLoss EXCEPT !.pc = "run", !.datapoint = Spawned + 1]]
    /\ UNCHANGED <<caller, Layers, numInputs, codec, BatchSize, dataset, testingData, mem, tpc,
                   datapointIndex, epochs, item, shifts, batches, gor, shiftHeap,
                   lpc, loss, correctGuesses, valuesRecieved, hist>>

\* perceptron.go:139 false, 144 reached.
LossSpawnDone ==
    /\ lpc = "spawn"
    /\ Spawned >= Len(testingData)
    /\ lpc' = "recvLoss"
    /\ UNCHANGED <<caller, Layers, numInputs, codec, BatchSize, dataset, testingData, mem, tpc,
                   datapointIndex, epochs, item, shifts, batches, gor, shiftHeap,
                   lossgor, loss, correctGuesses, valuesRecieved, hist>>

\* perceptron.go:110-118: getLoss up to its first send.
GetLossRun(k) ==
    /\ lossgor[k].pc = "run"
    /\ LET dp == testingData[lossgor[k].datapoint]
           e  == Evaluate(Layers, mem[dp.Input])
       IN  /\ mem' = [mem EXCEPT ![dp.Input] = e.input]
           /\ lossgor' = [lossgor EXCEPT ![k].pc = "sendLoss",
                                         ![k].loss = SquaredError(e.out, dp.Output),
                                         ![k].wasCorrect = WasCorrect(e.out, dp.Output)]
    /\ UNCHANGED <<caller, Layers, numInputs, codec, BatchSize, dataset, testingData, tpc,
                   datapointIndex, epochs, item, shifts, batches, gor, shiftHeap,
                   lpc, loss, correctGuesses, valuesRecieved, hist>>

\* The receiving loop stopping one item short.
ReceiveMoreShort(n) == n + 1 < Len(testingData)

\* perceptron.go:145, the receiving loop's condition.
ReceiveMore(n) == n < Len(testingData)

\* perceptron.go:120 and 146: lossChannel's rendezvous.
RecvLoss(k) ==
    /\ lpc = "recvLoss"
    /\ ReceiveMore(valuesRecieved)
    /\ lossgor[k].pc = "sendLoss"
    /\ loss' = loss + lossgor[k].loss
    /\ lossgor' = [lossgor EXCEPT ![k].pc = "sendCorrect"]
    /\ lpc' = "recvCorrect"
    /\ hist' = [hist EXCEPT !.lorder = Append(@, k)]
    /\ UNCHANGED <<caller, Layers, numInputs, codec, BatchSize, dataset, testingData, mem, tpc,
                   datapointIndex, epochs, item, shifts, batches, gor, shiftHeap,
                   correctGuesses, valuesRecieved>>

\* A count that ignores the flag received.
CountedAlways(n, flag) == n + 1

\* perceptron.go:147-149.
Counted(n, flag) == IF flag THEN n + 1 ELSE n

\* perceptron.go:121 and 147-150: correctChannel's rendezvous.
RecvCorrect(k) ==
    /\ lpc = "recvCorrect"
    /\ lossgor[k].pc = "sendCorrect"
    /\ correctGuesses' = Counted(correctGuesses, lossgor[k].wasCorrect)
    /\ valuesRecieved' = valuesRecieved + 1
    /\ lossgor' = [lossgor EXCEPT ![k].pc = "done"]
    /\ lpc' = "recvLoss"
    /\ UNCHANGED <<caller, Layers, numInputs, codec, BatchSize, dataset, testingData, mem, tpc,
                   datapointIndex, epochs, item, shifts, batches, gor, shiftHeap,
                   loss, hist>>

\* perceptron.go:145 false, 153.
LossReturn ==
    /\ lpc = "recvLoss"
    /\ ~ReceiveMore(valuesRecieved)
    /\ lpc' = "returned"
    /\ UNCHANGED <<caller, Layers, numInputs, codec, BatchSize, dataset, testingData, mem, tpc,
                   datapointIndex, epochs, item, shifts, batches, gor, shiftHeap,
                   lossgor, loss, correctGuesses, valuesRecieved, hist>>

\* perceptron.go:181-189: the baseline is printed, the tracking data start.
TrainBaselineDone ==
    /\ tpc = "baseline"
    /\ lpc = "returned"
    /\ tpc' = "check"
    /\ lpc' = "idle"
    /\ datapointIndex' = 0
    /\ epochs' = 0
    /\ UNCHANGED <<caller, Layers, numInputs, codec, BatchSize, dataset, testingData, mem, item,
                   shifts, batches, gor, shiftHeap, lossgor, loss, correctGuesses,
                   valuesRecieved, hist>>

\* perceptron.go:238-242: the final report is printed, Train returns.
TrainFinalDone ==
    /\ tpc = "final"
    /\ lpc = "returned"
    /\ tpc' = "done"
    /\ lpc' = "idle"
    /\ UNCHANGED <<caller, Layers, numInputs, codec, BatchSize, dataset, testingData, mem,
                   datapointIndex, epochs, item, shifts, batches, gor, shiftHeap,
                   lossgor, loss, correctGuesses, valuesRecieved, hist>>

----------------------------------------------------------------------------
(* Calls of the exported Evaluate and GetErrors, made by the program that  *)
(* owns the network before it calls Train                                  *)

\* perceptron.go:254-264 from item i on: the memory afterwards and the
\* (indices of the) datapoints returned.
RECURSIVE GetErrorsFrom(_, _, _, _, _)
GetErrorsFrom(ls, ds, m, i, errors) ==
    IF i > Len(ds) THEN [mem |-> m, errors |-> errors]
    ELSE LET e == Evaluate(ls, m[ds[i].Input])
         IN  GetErrorsFrom(ls, ds, [m EXCEPT ![ds[i].Input] = e.input], i + 1,
                           IF WasCorrect(e.out, ds[i].Output) THEN errors
                           ELSE Append(errors, i))

\* Nothing of the network is running.
Quiet == tpc = "baseline" /\ lpc = "idle"

\* output := network.Evaluate(testingData[t].Input)
CallEvaluate(t) ==
    /\ Quiet
    /\ Len(caller.evals) < MaxCalls
    /\ LET loc == testingData[t].Input
           e   == Evaluate(Layers, mem[loc])
       IN  /\ mem' = [mem EXCEPT ![loc] = e.input]
           /\ caller' = [caller EXCEPT !.evals =
                            Append(@, [t |-> t, given |-> mem[loc], out |-> e.out])]
    /\ UNCHANGED <<Layers, numInputs, codec, BatchSize, dataset, testingData, tpc, datapointIndex,
                   epochs, item, shifts, batches, gor, shiftHeap, lossgor, lpc,
                   loss, correctGuesses, valuesRecieved, hist>>

\* errors := network.GetErrors(testingData)
CallGetErrors ==
    /\ Quiet
    /\ caller.errors = <<>>
    /\ LET r == GetErrorsFrom(Layers, testingData, mem, 1, <<>>)
       IN  /\ mem' = r.mem
           /\ caller' = [caller EXCEPT !.errors = <<r.errors>>]
    /\ UNCHANGED <<Layers, numInputs, codec, BatchSize, dataset, testingData, tpc, datapointIndex,
                   epochs, item, shifts, batches, gor, shiftHeap, lossgor, lpc,
                   loss, correctGuesses, valuesRecieved, hist>>

----------------------------------------------------------------------------
(* Construction and persistence: the layer-kind index, the layers' own     *)
(* Initialize / NumOutputs / ToBytes / FromBytes, and Perceptron's          *)
(* Initialize, ToBytes and FromBytes                                        *)

\* The nil Layer that IndexToLayer returns for an index it does not know.
NilLayer == [kind |-> "nil"]

\* The layer variants: the types of layer.go's two switches, and LSTMLayer,
\* which LSTMShift.Apply asserts a Layer to be.
LayerVariants ==
    {"Linear", "Relu", "Sigmoid", "Tanh", "Softmax", "Conv2D", "MaxPool2D",
     "Flatten", "LSTM"}

\* The zero value &T{} of a layer type.
ZeroLayer(kind) ==
    CASE kind = "Linear" -> LinearLayer(0, 0, <<>>, <<>>)
      [] kind = "Sigmoid" -> SigmoidLayer(0)
      [] kind = "Conv2D" -> Conv2DLayer(<<>>)
      [] kind = "LSTM" ->
            LSTMLayer(LinearLayer(0, 0, <<>>, <<>>), LinearLayer(0, 0, <<>>, <<>>),
                      LinearLayer(0, 0, <<>>, <<>>), LinearLayer(0, 0, <<>>, <<>>))
      [] OTHER -> [kind |-> kind, n_inputs |-> 0]

\* layer.go IndexToLayer.
IndexToLayer(index) ==
    CASE index = 0 -> ZeroLayer("Linear")
      [] index = 1 -> ZeroLayer("Relu")
      [] index = 2 -> ZeroLayer("Sigmoid")
      [] index = 3 -> ZeroLayer("Tanh")
      [] index = 4 -> ZeroLayer("Softmax")
      [] index = 5 -> ZeroLayer("Conv2D")
      [] index = 6 -> ZeroLayer("MaxPool2D")
      [] index = 7 -> ZeroLayer("Flatten")
      [] OTHER -> NilLayer

\* layer.go LayerToIndex.
LayerToIndex(layer) ==
    CASE layer.kind = "Linear" -> 0
      [] layer.kind = "Relu" -> 1
      [] layer.kind = "Sigmoid" -> 2
      [] layer.kind = "Tanh" -> 3
      [] layer.kind = "Softmax" -> 4
      [] layer.kind = "Conv2D" -> 5
      [] layer.kind = "MaxPool2D" -> 6
      [] layer.kind = "Flatten" -> 7
      [] OTHER -> 0 - 1

\* save.ConstantsToBytes / save.ConstantsFromBytes (package save is not part
\* of src/; modelled from the specification's blob format): an int is an
\* int32 of four bytes, lowest byte first, negative numbers in two's
\* complement.
IntToBytes(n) ==
    LET low == IF n >= 0 THEN n ELSE (n + 2147483647) + 1
    IN  <<low % 256, (low \div 256) % 256, (low \div 65536) % 256,
          (low \div 16777216) + (IF n < 0 THEN 128 ELSE 0)>>

BytesToInt(b) ==
    LET low == b[1] + 256 * b[2] + 65536 * b[3] + 16777216 * (b[4] % 128)
    IN  IF b[4] >= 128 THEN (low - 2147483647) - 1 ELSE low

RECURSIVE ConstantsToBytes(_)
ConstantsToBytes(ints) ==
    IF ints = <<>> THEN <<>>
    ELSE IntToBytes(Head(ints)) \o ConstantsToBytes(Tail(ints))

ConstantsFromBytes(bytes) ==
    [k \in 1..(Len(bytes) \div 4) |-> BytesToInt(SubSeq(bytes, 4 * k - 3, 4 * k))]

\* The Go slice bytes[from:to] of a slice whose capacity is its length.
Slice(bytes, from, to) == SubSeq(bytes, from + 1, to)

\* bytes[from:to] panics: the bounds are out of order or beyond the slice.
SliceOutOfRange(bytes, from, to) == from > to \/ to > Len(bytes)

\* sigmoidlayer.go: Initialize, NumOutputs, ToBytes, FromBytes.
SigmoidInitialize(layer, n_inputs) == [layer EXCEPT !.n_inputs = n_inputs]

SigmoidNumOutputs(layer) == layer.n_inputs

SigmoidToBytes(layer) == <<>>

SigmoidFromBytes(layer, bytes) == layer

\* Linear layer (not part of src/; from the specification): Initialize
\* records the input width and allocates the parameters unless the layer
\* already holds decoded ones; the payload is the shape followed by the
\* weights and the biases; FromBytes fails on a payload too short for the
\* shape it declares.
LinearInitialize(layer, n_inputs) ==
    IF layer.weights # <<>> THEN layer
    ELSE LinearLayer(n_inputs, layer.n_outputs,
                     [k \in 1..(n_inputs * layer.n_outputs) |-> (k % 3) - 1],
                     [k \in 1..layer.n_outputs |-> 0])

LinearNumOutputs(layer) == layer.n_outputs

LinearToBytes(layer) ==
    ConstantsToBytes(<<layer.n_inputs, layer.n_outputs>> \o layer.weights \o layer.biases)

LinearFromBytes(layer, bytes) ==
    IF Len(bytes) < 8 THEN [layer |-> layer, ok |-> FALSE]
    ELSE LET words == ConstantsFromBytes(bytes)
             nin   == words[1]
             nout  == words[2]
         IN  IF nin < 0 \/ nout < 0 \/ Len(words) < 2 + nin * nout + nout
             THEN [layer |-> layer, ok |-> FALSE]
             ELSE [layer |-> LinearLayer(nin, nout,
                                         SubSeq(words, 3, 2 + nin * nout),
                                         SubSeq(words, 3 + nin * nout,
                                                2 + nin * nout + nout)),
                   ok |-> TRUE]

\* LSTM layer (not part of src/; from the specification's "four gated
\* sub-layers"): each method is the gates' method in turn.
LSTMInitialize(layer, n_inputs) ==
    LSTMLayer(LinearInitialize(layer.forgetGate, n_inputs),
              LinearInitialize(layer.inputGate, n_inputs),
              LinearInitialize(layer.candidateGate, n_inputs),
              LinearInitialize(layer.outputGate, n_inputs))

LSTMNumOutputs(layer) == LinearNumOutputs(layer.outputGate)

LSTMToBytes(layer) ==
    LinearToBytes(layer.forgetGate) \o LinearToBytes(layer.inputGate)
        \o LinearToBytes(layer.candidateGate) \o LinearToBytes(layer.outputGate)

\* The methods of the Layer interface, dispatched on the layer's type.  A
\* call on the nil Layer panics.
LayerInitialize(layer, n_inputs) ==
    CASE layer.kind = "Sigmoid" -> SigmoidInitialize(layer, n_inputs)
      [] layer.kind = "Linear" -> LinearInitialize(layer, n_inputs)
      [] layer.kind = "LSTM" -> LSTMInitialize(layer, n_inputs)

NumOutputs(layer) ==
    CASE layer.kind = "Sigmoid" -> SigmoidNumOutputs(layer)
      [] layer.kind = "Linear" -> LinearNumOutputs(layer)
      [] layer.kind = "LSTM" -> LSTMNumOutputs(layer)

LayerToBytes(layer) ==
    CASE layer.kind = "Sigmoid" -> SigmoidToBytes(layer)
      [] layer.kind = "Linear" -> LinearToBytes(layer)
      [] layer.kind = "LSTM" -> LSTMToBytes(layer)

LayerFromBytes(layer, bytes) ==
    CASE layer.kind = "Sigmoid" -> [layer |-> SigmoidFromBytes(layer, bytes), ok |-> TRUE]
      [] layer.kind = "Linear" -> LinearFromBytes(layer, bytes)
      [] layer.kind = "nil" -> [layer |-> layer, ok |-> FALSE]

\* perceptron.go:275-283 from layer i on.
RECURSIVE ToBytesFrom(_, _, _)
ToBytesFrom(ls, i, bytes) ==
    IF i > Len(ls) THEN bytes
    ELSE LET layerBytes == LayerToBytes(ls[i])
         IN  ToBytesFrom(ls, i + 1,
                 bytes \o ConstantsToBytes(<<LayerToIndex(ls[i]), Len(layerBytes)>>)
                       \o layerBytes)

\* network.ToBytes().
ToBytes(n, ls) == ToBytesFrom(ls, 1, ConstantsToBytes(<<n>>))

\* network.BatchSize as Initialize sets it.
DefaultBatchSize == 8

IdleCodec == [pc |-> "idle", index |-> 0, lastOutput |-> 0, bytes |-> <<>>, i |-> 0]

\* A call layer.Initialize(width) made by the network, noted with the width
\* NumOutputs() returned right after it.
NoteInit(h, width, out) ==
    [h EXCEPT !.inits = Append(@, [given |-> width, out |-> out])]

\* The width carried to the next layer, read from the layer as it was
\* before its Initialize.
ChainedWidthStale(before, after) == NumOutputs(before)

\* perceptron.go:31 and 301: lastOutput = layer.NumOutputs(), read from the
\* layer after its Initialize.
ChainedWidth(before, after) == NumOutputs(after)

\* perceptron.go:24-28: network.Initialize(caller.numInputs, caller.ls...).
InitializeBegin ==
    /\ codec.pc = "new"
    /\ numInputs' = caller.numInputs
    /\ Layers' = caller.ls
    /\ codec' = [codec EXCEPT !.pc = "init", !.index = 0,
                              !.lastOutput = caller.numInputs]
    /\ hist' = [hist EXCEPT !.inits = <<>>]
    /\ UNCHANGED <<caller, BatchSize, dataset, testingData, mem, tpc, datapointIndex,
                   epochs, item, shifts, batches, gor, shiftHeap, lossgor, lpc,
                   loss, correctGuesses, valuesRecieved>>

\* perceptron.go:29-32, one iteration.
InitializeLayer ==
    /\ codec.pc = "init"
    /\ codec.index < Len(Layers)
    /\ LET k     == codec.index + 1
           layer == LayerInitialize(Layers[k], codec.lastOutput)
           out   == ChainedWidth(Layers[k], layer)
       IN  /\ Layers' = [Layers EXCEPT ![k] = layer]
           /\ codec' = [codec EXCEPT !.index = k, !.lastOutput = out]
           /\ hist' = NoteInit(hist, codec.lastOutput, NumOutputs(layer))
    /\ UNCHANGED <<caller, numInputs, BatchSize, dataset, testingData, mem, tpc,
                   datapointIndex, epochs, item, shifts, batches, gor, shiftHeap,
                   lossgor, lpc, loss, correctGuesses, valuesRecieved>>

\* perceptron.go:34-35.
InitializeDone ==
    /\ codec.pc = "init"
    /\ codec.index >= Len(Layers)
    /\ BatchSize' = DefaultBatchSize
    /\ codec' = [codec EXCEPT !.pc = "ready"]
    /\ UNCHANGED <<caller, numInputs, Layers, dataset, testingData, mem, tpc,
                   datapointIndex, epochs, item, shifts, batches, gor, shiftHeap,
                   lossgor, lpc, loss, correctGuesses, valuesRecieved, hist>>

\* bytes := network.ToBytes()
CallToBytes ==
    /\ codec.pc = "ready"
    /\ codec' = [codec EXCEPT !.pc = "encoded", !.bytes = ToBytes(numInputs, Layers)]
    /\ hist' = [hist EXCEPT !.saved = [numInputs |-> numInputs, Layers |-> Layers]]
    /\ UNCHANGED <<caller, numInputs, Layers, BatchSize, dataset, testingData, mem,
                   tpc, datapointIndex, epochs, item, shifts, batches, gor,
                   shiftHeap, lossgor, lpc, loss, correctGuesses, valuesRecieved>>

\* perceptron.go:286-290: network.FromBytes(bytes) up to its loop.
FromBytesBegin ==
    /\ codec.pc = "blob"
    /\ IF SliceOutOfRange(codec.bytes, 0, 4)
       THEN /\ codec' = [codec EXCEPT !.pc = "panic"]
            /\ UNCHANGED <<numInputs, Layers, hist>>
       ELSE LET n == ConstantsFromBytes(Slice(codec.bytes, 0, 4))[1]
            IN  /\ numInputs' = n
                /\ Layers' = <<>>
                /\ codec' = [codec EXCEPT !.pc = "decode", !.lastOutput = n, !.i = 4]
                /\ hist' = [hist EXCEPT !.inits = <<>>]
    /\ UNCHANGED <<caller, BatchSize, dataset, testingData, mem, tpc, datapointIndex,
                   epochs, item, shifts, batches, gor, shiftHeap, lossgor, lpc,
                   loss, correctGuesses, valuesRecieved>>

\* perceptron.go:291-304, one iteration.
FromBytesLayer ==
    /\ codec.pc = "decode"
    /\ codec.i < Len(codec.bytes)
    /\ LET bytes == codec.bytes
           i     == codec.i
           stop  == /\ codec' = [codec EXCEPT !.pc = "panic"]
                    /\ UNCHANGED <<Layers, hist>>
       IN  IF SliceOutOfRange(bytes, i, i + 8) THEN stop
           ELSE
             LET layerData  == ConstantsFromBytes(Slice(bytes, i, i + 8))
                 layer      == IndexToLayer(layerData[1])
                 dataLength == layerData[2]
                 j          == i + 8
             IN  IF SliceOutOfRange(bytes, j, j + dataLength) THEN stop
                 ELSE
                   LET d == LayerFromBytes(layer, Slice(bytes, j, j + dataLength))
                   IN  IF ~d.ok THEN stop
                       ELSE
                         LET init == LayerInitialize(d.layer, codec.lastOutput)
                             out  == ChainedWidth(d.layer, init)
                         IN  /\ Layers' = Append(Layers, init)
                             /\ codec' = [codec EXCEPT !.i = j + dataLength,
                                                       !.lastOutput = out]
                             /\ hist' = NoteInit(hist, codec.lastOutput, NumOutputs(init))
    /\ UNCHANGED <<caller, numInputs, BatchSize, dataset, testingData, mem, tpc,
                   datapointIndex, epochs, item, shifts, batches, gor, shiftHeap,
                   lossgor, lpc, loss, correctGuesses, valuesRecieved>>

\* perceptron.go:291 false: FromBytes returns.
FromBytesDone ==
    /\ codec.pc = "decode"
    /\ codec.i >= Len(codec.bytes)
    /\ codec' = [codec EXCEPT !.pc = "decoded"]
    /\ UNCHANGED <<caller, numInputs, Layers, BatchSize, dataset, testingData, mem,
                   tpc, datapointIndex, epochs, item, shifts, batches, gor,
                   shiftHeap, lossgor, lpc, loss, correctGuesses, valuesRecieved,
                   hist>>

----------------------------------------------------------------------------
(* The training run: Train(dataset, testingData, timespan) on a network    *)
(* of width 1                                                              *)

Linear11 == LinearLayer(1, 1, <<1>>, <<0>>)

\* Perceptron.Initialize(1, ...) with these layer lists.
Networks ==
    {<<SigmoidLayer(1)>>, <<Linear11>>, <<Linear11, SigmoidLayer(1)>>,
     <<SigmoidLayer(1), Linear11>>}

\* The items of the datasets, in grid units: input -1 with target 0 and
\* input 1 with target 1, in turn.
Sample(i) ==
    IF i % 2 = 1 THEN [in |-> <<0 - 1>>, out |-> <<0>>]
    ELSE [in |-> <<1>>, out |-> <<1>>]

Samples(n) == [i \in 1..n |-> Sample(i)]

IdleCaller == [evals |-> <<>>, errors |-> <<>>]

InitMem(net, ds, ts) ==
    [l \in Locs(Len(net), Len(ds), Len(ts)) |->
        CASE l[1] = "in" -> ds[l[2]].in
          [] l[1] = "tin" -> ts[l[2]].in
          [] OTHER -> <<>>]

InitWith(net, bs, ds, ts) ==
    /\ Layers = net
    /\ BatchSize = bs
    /\ dataset = [i \in 1..Len(ds) |-> DataPoint(InLoc(i), ds[i].out)]
    /\ testingData = [i \in 1..Len(ts) |-> DataPoint(TestLoc(i), ts[i].out)]
    /\ mem = InitMem(net, ds, ts)
    /\ tpc = "baseline"
    /\ datapointIndex = 0
    /\ epochs = 0
    /\ item = 0
    /\ shifts = <<>>
    /\ batches = 0
    /\ gor = [g \in 1..MaxBatchSize |-> IdleLearn]
    /\ shiftHeap = [r \in ShiftRefs(Len(net)) |-> NoShift]
    /\ lossgor = [k \in 1..Len(ts) |-> IdleGetLoss]
    /\ lpc = "idle"
    /\ loss = 0
    /\ correctGuesses = 0
    /\ valuesRecieved = 0
    /\ caller = IdleCaller
    /\ numInputs = (IF net = <<>> THEN 0 ELSE net[1].n_inputs)
    /\ codec = IdleCodec
    /\ hist = [before |-> <<>>, sent |-> [g \in 1..MaxBatchSize |-> <<>>],
               order |-> <<>>, foreign |-> {}, mem0 |-> InitMem(net, ds, ts),
               atCall |-> <<>>, lorder |-> <<>>, dispatched |-> <<>>,
               calls |-> [g \in 1..MaxBatchSize |-> <<>>],
               grads |-> [g \in 1..MaxBatchSize |-> <<>>]]

\* Train on 1..MaxData items with one testing item (getTotalLoss on 0 and
\* more items is the subject of SpecLoss below).
Init ==
    \E net \in Networks, bs \in 0..MaxBatchSize, n \in 1..MaxData :
        InitWith(net, bs, Samples(n), Samples(1))

Next ==
    \/ LossCall
    \/ LossSpawn
    \/ LossSpawnDone
    \/ \E k \in DOMAIN lossgor : GetLossRun(k)
    \/ \E k \in DOMAIN lossgor : RecvLoss(k)
    \/ \E k \in DOMAIN lossgor : RecvCorrect(k)
    \/ LossReturn
    \/ TrainBaselineDone
    \/ TrainCheck
    \/ TrainDispatch
    \/ TrainDispatchDone
    \/ \E g \in DOMAIN gor : LearnPass(g)
    \/ \E g \in DOMAIN gor : LearnPassRead(g)
    \/ \E g \in DOMAIN gor : LearnPassWrite(g)
    \/ \E g \in DOMAIN gor : LearnGrad(g)
    \/ \E g \in DOMAIN gor : LearnBack(g)
    \/ \E g \in DOMAIN gor : TrainCollect(g)
    \/ TrainCollectDone
    \/ TrainApply
    \/ TrainApplyDone
    \/ TrainFinalDone

Spec == Init /\ [][Next]_vars

----------------------------------------------------------------------------
(* Properties of the training run *)

\* The learn goroutines that have not yet handed over their shifts.
Running == {g \in DOMAIN gor : gor[g].pc \notin {"idle", "done"}}

\* C1: whenever Train is in its Apply loop, exactly BatchSize shift lists of
\* the batch have been received and no learn goroutine of the batch is still
\* in its forward or backward pass.
C1_ApplyAfterWholeBatch ==
    tpc = "apply" =>
        /\ Len(hist.order) = BatchSize
        /\ Running = {}
        /\ Cardinality({g \in DOMAIN gor : gor[g].pc = "done"}) = BatchSize

C1_Witness ==
    /\ tpc = "apply"
    /\ item = 0
    /\ BatchSize = 2
    /\ batches = 2
    /\ \E i \in 1..NumLayers : shiftHeap[shifts[i]].kind = "Weight"

\* C2: a step changes the layers' parameters only if it is one Apply of the
\* Train goroutine, taken in the Apply loop while no learn and no getLoss
\* goroutine is running; every other step (learn's Pass and Back, the send,
\* Combine, Evaluate, getLoss, getTotalLoss) leaves them as they are.
C2_OnlyApplyChangesParameters ==
    [][Params(Layers') # Params(Layers) =>
          /\ tpc = "apply"
          /\ item' = item + 1
          /\ Running = {}
          /\ lpc = "idle"]_vars

C2_Witness ==
    /\ tpc = "apply"
    /\ item > 0
    /\ Params(Layers) # hist.before
    /\ \E g \in DOMAIN gor : gor[g].pc = "done"

\* The sum of the shifts the batch's samples sent for layer i, taken in
\* dispatch order: field f of a WeightShift.
SentSum(i, f) ==
    LET term[g \in 0..BatchSize] ==
            IF g = 0 THEN [k \in 1..Len(hist.before[i][f]) |-> 0]
            ELSE VecAdd(term[g - 1],
                        IF f = 1 THEN hist.sent[g][i][1].weightShift
                        ELSE hist.sent[g][i][1].biasShift)
    IN  term[BatchSize]

\* The batch has been collected and applied to every layer.
BatchApplied == tpc = "apply" /\ item = NumLayers

\* C3 (as claimed): after a batch the change of every parameterized layer is
\* the learning rate times the average of the samples' shifts, that is
\* BatchSize * change = LearningRate * sum.
C3_DeltaIsRateTimesAverage ==
    BatchApplied =>
        \A i \in 1..NumLayers : Layers[i].kind = "Linear" =>
            \A f \in {1, 2} :
                VecScale(BatchSize, VecSub(Params(Layers)[i][f], hist.before[i][f]))
                    = VecScale(LearningRate, SentSum(i, f))

\* The accumulator Train must hold for layer i whatever the arrival order.
ExpectedShift(i) ==
    IF BatchSize = 0 \/ Layers[i].kind # "Linear" THEN <<NilShift>>
    ELSE <<WeightShift(SentSum(i, 1), SentSum(i, 2))>>

\* The parameters layer i must have after Apply whatever the arrival order.
ExpectedParams(i) ==
    IF Layers[i].kind # "Linear" THEN <<>>
    ELSE <<VecAdd(hist.before[i][1], VecScale(LearningRate, SentSum(i, 1))),
           VecAdd(hist.before[i][2], VecScale(LearningRate, SentSum(i, 2)))>>

\* C4: when all BatchSize results are folded in, the accumulator of every
\* layer holds the sum of the shifts sent, and after Apply the parameters
\* hold the value that sum gives, whatever order the lists arrived in.
C4_FoldIsOrderIndependent ==
    /\ (tpc = "apply" /\ item = 0) =>
            \A i \in 1..NumLayers : ShiftValue(shiftHeap, shifts[i]) = ExpectedShift(i)
    /\ BatchApplied =>
            \A i \in 1..NumLayers : Params(Layers)[i] = ExpectedParams(i)

C4_Witness ==
    /\ BatchApplied
    /\ hist.order = <<2, 1>>
    /\ \E i \in 1..NumLayers :
          /\ Layers[i].kind = "Linear"
          /\ hist.sent[1][i] # hist.sent[2][i]

\* C5 (as claimed): no learn goroutine writes a matrix it did not allocate.
C5_LearnWritesOnlyItsOwn == hist.foreign = {}

\* C11: Train leaves its batch loop only from the loop head.  Whenever the
\* final report is being computed or Train has returned, no learn goroutine
\* of a batch exists, the accumulator is gone, and the last batch started
\* (if any) received all BatchSize results and was applied to every layer.
C11_DeadlineOnlyBetweenBatches ==
    tpc \in {"final", "done"} =>
        /\ \A g \in DOMAIN gor : gor[g].pc = "idle"
        /\ shifts = <<>>
        /\ batches > 0 =>
              /\ Len(hist.order) = BatchSize
              /\ \A i \in 1..NumLayers : Params(Layers)[i] = ExpectedParams(i)

C11_Witness ==
    /\ tpc = "final"
    /\ lpc = "returned"
    /\ batches = 2
    /\ BatchSize = 2
    /\ Params(Layers) # hist.before

\* The shift variant that belongs to a layer kind.
ShiftKindOf(layerKind) ==
    CASE layerKind = "Linear" -> "Weight"
      [] layerKind = "Conv2D" -> "Kernel"
      [] layerKind = "LSTM" -> "LSTM"
      [] OTHER -> "Nil"

\* C17: Train never panics in Combine or Apply; when Apply is about to run,
\* the accumulator of layer i is a NilShift or the variant of layer i's kind
\* and is an object that layer i's Back returned (or the initial NilShift);
\* and every list waiting to be folded in meets, slot by slot, either a
\* NilShift accumulator or an accumulator of its own variant.
C17_AccumulatorMatchesLayer ==
    /\ tpc # "panic"
    /\ tpc = "apply" =>
          \A i \in 1..NumLayers :
              /\ shiftHeap[shifts[i]].kind \in {"Nil", ShiftKindOf(Layers[i].kind)}
              /\ shifts[i][2] = i
    /\ tpc = "collect" =>
          \A g \in DOMAIN gor : gor[g].pc = "send" =>
              \A i \in 1..NumLayers :
                  \/ shiftHeap[shifts[i]].kind = "Nil"
                  \/ shiftHeap[shifts[i]].kind = shiftHeap[gor[g].shifts[i]].kind

C17_Witness ==
    /\ tpc = "apply"
    /\ item = 0
    /\ BatchSize = 2
    /\ hist.order = <<2, 1>>
    /\ \E i, j \in 1..NumLayers :
          /\ shiftHeap[shifts[i]].kind = "Weight"
          /\ shiftHeap[shifts[j]].kind = "Nil"

\* The number of samples dispatched when Train is at its current position.
DispatchedSoFar ==
    IF tpc = "dispatch" THEN (batches - 1) * BatchSize + item
    ELSE batches * BatchSize

\* C18: the k-th sample dispatched is the item at index (k-1) mod
\* len(dataset); datapointIndex is a valid index whenever it is used; every
\* batch dispatches BatchSize samples; epochs*len(dataset)+datapointIndex is
\* the number of samples dispatched; epochs is incremented exactly by the
\* dispatches that wrap the index to 0, and only those change the order of
\* the dataset.
C18_DispatchInOrder ==
    LET d == hist.dispatched
        n == Len(dataset)
    IN  /\ datapointIndex \in 0..(n - 1)
        /\ Len(d) = DispatchedSoFar
        /\ epochs * n + datapointIndex = Len(d)
        /\ \A k \in 1..Len(d) :
              /\ d[k].index = (k - 1) % n
              /\ d[k].next = k % n
              /\ d[k].epochs = k \div n
              /\ d[k].epochs = (IF k = 1 THEN 0 ELSE d[k - 1].epochs)
                                  + (IF d[k].next = 0 THEN 1 ELSE 0)
              /\ d[k].shuffled => d[k].next = 0

C18_Witness ==
    /\ tpc = "final"
    /\ Len(dataset) = 2
    /\ epochs = 2
    /\ datapointIndex = 0
    /\ Len(hist.dispatched) = 4
    /\ hist.dispatched[2].shuffled
    /\ ~hist.dispatched[4].shuffled

\* The k-th call learn makes on the layers of an n-layer network.
ExpectedCall(n, k) ==
    IF k <= n THEN [op |-> "Pass", layer |-> k]
    ELSE [op |-> "Back", layer |-> 2 * n + 1 - k]

\* C19: the calls a learn goroutine has made are Pass on layers 1..n then
\* Back on layers n..1; each Pass is given what the Pass before returned;
\* layer i's Back is given the input and output of layer i's Pass, and as
\* gradient the matrix holding target - prediction (layer n) or the one
\* layer i+1's Back returned; the list sent has n entries, entry i being the
\* shift layer i's Back returned.
C19_PassThenBackInReverse ==
    \A g \in DOMAIN gor : gor[g].pc \notin {"idle", "done"} =>
        LET c == hist.calls[g]
            n == NumLayers
        IN  /\ Len(c) <= 2 * n
            /\ \A k \in 1..Len(c) :
                  /\ c[k].op = ExpectedCall(n, k).op
                  /\ c[k].layer = ExpectedCall(n, k).layer
                  /\ (c[k].op = "Pass" /\ k > 1) => c[k].input = c[k - 1].output
                  /\ c[k].op = "Back" =>
                        /\ c[k].input = c[c[k].layer].input
                        /\ c[k].output = c[c[k].layer].output
                        /\ c[k].gradient =
                              IF c[k].layer = n THEN GradLoc(g, n + 1)
                              ELSE c[k - 1].ret
            /\ Len(c) > n => Len(hist.grads[g]) = 1
            /\ \A e \in 1..Len(hist.grads[g]) :
                  LET gr == hist.grads[g][e]
                  IN  /\ Len(c) >= n
                      /\ Len(gr.gradient) = Len(gr.target)
                      /\ \A i \in 1..Len(gr.target) :
                            gr.gradient[i] = gr.target[i] - gr.prediction[i]
            /\ gor[g].pc = "send" =>
                  /\ Len(c) = 2 * n
                  /\ Len(gor[g].shifts) = n
                  /\ \A i \in 1..n : gor[g].shifts[i] = c[2 * n + 1 - i].shift

C19_Witness ==
    /\ NumLayers = 2
    /\ Layers[1].kind = "Sigmoid"
    /\ \E g \in DOMAIN gor :
          /\ gor[g].pc = "send"
          /\ Len(hist.calls[g]) = 4
          /\ mem[hist.calls[g][4].ret] # <<0>>

----------------------------------------------------------------------------
(* The shift algebra on its own: a program that builds shifts and calls     *)
(* Combine on them.  Objects are named <<name, part>>: part 0 is the shift, *)
(* parts 1..4 the four gate shifts of an LSTMShift.                         *)

\* The objects a shift value v occupies when allocated under name.
Alloc(name, v) ==
    [p \in 0..4 |->
        IF v.kind = "LSTM"
        THEN IF p = 0
             THEN LSTMShift(<<name, 1>>, <<name, 2>>, <<name, 3>>, <<name, 4>>)
             ELSE v.gates[p]
        ELSE IF p = 0 THEN v ELSE NoShift]

ShiftNames == {"a1", "b1", "c1", "a2", "b2", "c2", "n"}

\* The heap with a, b, c allocated twice (one copy per side of an equation)
\* and a fresh NilShift n.
AlgebraHeap(a, b, c) ==
    [r \in ShiftNames \X (0..4) |->
        CASE r[1] \in {"a1", "a2"} -> Alloc(r[1], a)[r[2]]
          [] r[1] \in {"b1", "b2"} -> Alloc(r[1], b)[r[2]]
          [] r[1] \in {"c1", "c2"} -> Alloc(r[1], c)[r[2]]
          [] OTHER -> IF r[2] = 0 THEN NilShift ELSE NoShift]

Call(recv, arg, dest) == [recv |-> recv, arg |-> arg, dest |-> dest]

\* The programs: each call is dest = recv.Combine(arg).
Programs ==
    [assoc  |-> <<Call("a1", "b1", "x"), Call("x", "c1", "L"),
                  Call("b2", "c2", "y"), Call("a2", "y", "R")>>,
     comm   |-> <<Call("a1", "b1", "L"), Call("b2", "a2", "R")>>,
     identL |-> <<Call("n", "a1", "L")>>,
     identR |-> <<Call("a1", "n", "L")>>,
     fold   |-> <<Call("n", "a1", "x"), Call("x", "b1", "L")>>,
     apply  |-> <<>>]

\* The local variables of a program before its first call.
Slots0 ==
    [s \in ShiftNames \cup {"x", "y", "L", "R"} |->
        IF s \in ShiftNames THEN <<s, 0>> ELSE NoRef]

Vals == {0 - 1, 2}

WeightShifts == {WeightShift(<<w1, w2>>, <<b>>) : w1 \in Vals, w2 \in Vals, b \in Vals}

KernelShifts == {KernelShift(<<<<k1>>, <<k2>>>>) : k1 \in Vals, k2 \in Vals}

\* LSTM shifts whose four gate shifts are WeightShifts of one shape.
LSTMShifts ==
    {[kind |-> "LSTM",
      gates |-> <<WeightShift(<<v>>, <<w>>), WeightShift(<<v + 1>>, <<w>>),
                  WeightShift(<<0 - v>>, <<0>>), WeightShift(<<w>>, <<v>>)>>] :
        v \in Vals, w \in Vals}

ShiftKinds == {WeightShifts, KernelShifts, LSTMShifts}

\* A program on the shifts a, b, c; ls and scale are the layer and the
\* factor of the program that calls Apply.
InitProgramWith(scenario, a, b, c, ls, scale) ==
    /\ shiftHeap = AlgebraHeap(a, b, c)
    /\ shifts = Slots0
    /\ caller = [scenario |-> scenario, program |-> Programs[scenario],
                 scale |-> scale]
    /\ tpc = "algebra"
    /\ item = 0
    /\ Layers = ls
    /\ BatchSize = 0
    /\ dataset = <<>>
    /\ testingData = <<>>
    /\ mem = <<>>
    /\ datapointIndex = 0
    /\ epochs = 0
    /\ batches = 0
    /\ gor = <<>>
    /\ lossgor = <<>>
    /\ lpc = "idle"
    /\ loss = 0
    /\ correctGuesses = 0
    /\ valuesRecieved = 0
    /\ numInputs = 0
    /\ codec = IdleCodec
    /\ hist = [heap0 |-> AlgebraHeap(a, b, c), layers0 |-> ls]

InitAlgebraWith(scenario, a, b, c) == InitProgramWith(scenario, a, b, c, <<>>, 1)

\* The shifts handed to Apply: every variant, among them a KernelShift
\* without kernels.
ApplyShifts ==
    {NilShift, KernelShift(<<>>)} \cup WeightShifts \cup KernelShifts \cup LSTMShifts

\* The layers handed to Apply, one of each kind a shift asserts and one
\* parameter-free layer, with the shapes of the shifts above.
ApplyLayers ==
    {SigmoidLayer(2),
     LinearLayer(2, 1, <<1, 0>>, <<0>>),
     Conv2DLayer(<<<<1>>, <<0>>>>),
     LSTMLayer(LinearLayer(1, 1, <<1>>, <<0>>), LinearLayer(1, 1, <<0>>, <<1>>),
               LinearLayer(1, 1, <<2>>, <<0>>), LinearLayer(1, 1, <<0>>, <<0>>))}

\* The factors handed to Apply.
ApplyScales == {1, 2}

InitShift ==
    \/ \E K \in ShiftKinds : \E a, b, c \in K :
          \E sc \in {"assoc", "comm"} : InitAlgebraWith(sc, a, b, c)
    \/ \E K \in ShiftKinds \cup {{NilShift}} : \E a \in K :
          \E sc \in {"identL", "identR"} : InitAlgebraWith(sc, a, a, a)
    \/ \E K \in ShiftKinds : \E a, b \in K : InitAlgebraWith("fold", a, b, b)
    \/ \E a \in ApplyShifts, layer \in ApplyLayers, scale \in ApplyScales :
          InitProgramWith("apply", a, a, a, <<layer>>, scale)

\* The next call of the program: dest = recv.Combine(arg).
AlgebraStep ==
    /\ tpc = "algebra"
    /\ item < Len(caller.program)
    /\ LET call == caller.program[item + 1]
           c    == Combine(shiftHeap, shifts[call.recv], shifts[call.arg])
       IN  /\ shiftHeap' = c.heap
           /\ shifts' = IF c.ok THEN [shifts EXCEPT ![call.dest] = c.ret] ELSE shifts
           /\ tpc' = IF ~c.ok THEN "panic"
                     ELSE IF item + 1 = Len(caller.program) THEN "done"
                     ELSE "algebra"
    /\ item' = item + 1
    /\ UNCHANGED <<caller, Layers, numInputs, codec, BatchSize, dataset, testingData, mem,
                   datapointIndex, epochs, batches, gor, lossgor, lpc, loss,
                   correctGuesses, valuesRecieved, hist>>

\* The program that calls a1.Apply(layer, scale).
ApplyStep ==
    /\ tpc = "algebra"
    /\ caller.scenario = "apply"
    /\ item = 0
    /\ LET a == Apply(shiftHeap, Layers[1], shifts["a1"], caller.scale)
       IN  /\ shiftHeap' = a.heap
           /\ Layers' = <<a.layer>>
           /\ tpc' = IF a.ok THEN "done" ELSE "panic"
    /\ item' = 1
    /\ UNCHANGED <<caller, numInputs, codec, BatchSize, dataset, testingData, mem, datapointIndex,
                   epochs, shifts, batches, gor, lossgor, lpc, loss,
                   correctGuesses, valuesRecieved, hist>>

NextShift ==
    \/ AlgebraStep
    \/ ApplyStep

SpecShift == InitShift /\ [][NextShift]_vars

\* C6 (as claimed): Combine(noop, s) and Combine(s, noop) both return, and
\* return a shift equal to s, for s of every variant.
C6_NoopIsTwoSidedIdentity ==
    caller.scenario \in {"identL", "identR"} =>
        /\ tpc # "panic"
        /\ tpc = "done" =>
              ShiftValue(shiftHeap, shifts["L"]) = ShiftValue(hist.heap0, <<"a2", 0>>)

\* C7: for a, b, c of one kind and shape, (a.b).c equals a.(b.c) and a.b
\* equals b.a elementwise, each side computed on its own copies.
C7_CombineAssociativeCommutative ==
    caller.scenario \in {"assoc", "comm"} =>
        /\ tpc # "panic"
        /\ tpc = "done" =>
              ShiftValue(shiftHeap, shifts["L"]) = ShiftValue(shiftHeap, shifts["R"])

C7_Witness ==
    /\ caller.scenario = "assoc"
    /\ tpc = "done"
    /\ shiftHeap[shifts["L"]].kind = "LSTM"
    /\ ShiftValue(hist.heap0, <<"a1", 0>>) # ShiftValue(hist.heap0, <<"b1", 0>>)
    /\ ShiftValue(hist.heap0, <<"b1", 0>>) # ShiftValue(hist.heap0, <<"c1", 0>>)
    /\ ShiftValue(shiftHeap, shifts["L"]) # ShiftValue(hist.heap0, <<"a1", 0>>)

\* C16 (as claimed): Apply of a WeightShift, KernelShift or LSTMShift to a
\* layer of another kind panics and leaves the layer as it was; Apply of a
\* NilShift returns and leaves the layer as it was.
C16_WrongKindApplyFailsFast ==
    (caller.scenario = "apply" /\ item = 1) =>
        LET kind == hist.heap0[<<"a1", 0>>].kind
        IN  /\ kind = "Nil" => (tpc = "done" /\ Layers = hist.layers0)
            /\ (kind # "Nil" /\ kind # ShiftKindOf(hist.layers0[1].kind)) =>
                  (tpc = "panic" /\ Layers = hist.layers0)

\* C20 (as claimed): after acc = Combine(Combine(noop, a), b) the shifts a and
\* b, with their sub-shifts, hold the values they had before.
C20_CombineLeavesArgument ==
    (caller.scenario = "fold" /\ tpc = "done") =>
        /\ ShiftValue(shiftHeap, <<"a1", 0>>) = ShiftValue(hist.heap0, <<"a1", 0>>)
        /\ ShiftValue(shiftHeap, <<"b1", 0>>) = ShiftValue(hist.heap0, <<"b1", 0>>)

\* The elementwise sum of the shifts at ra and rb of heap h, as a value.
RECURSIVE SumValue(_, _, _)
SumValue(h, ra, rb) ==
    CASE h[ra].kind = "Weight" ->
            <<WeightShift(VecAdd(h[ra].weightShift, h[rb].weightShift),
                          VecAdd(h[ra].biasShift, h[rb].biasShift))>>
      [] h[ra].kind = "Kernel" ->
            <<KernelShift([i \in 1..Len(h[ra].shifts) |->
                              VecAdd(h[ra].shifts[i], h[rb].shifts[i])])>>
      [] h[ra].kind = "LSTM" ->
            <<"LSTM", SumValue(h, h[ra].forgetShift, h[rb].forgetShift),
              SumValue(h, h[ra].inputShift, h[rb].inputShift),
              SumValue(h, h[ra].candidateShift, h[rb].candidateShift),
              SumValue(h, h[ra].outputShift, h[rb].outputShift)>>

\* C20 (amended): in acc = Combine(Combine(noop, a), b) neither call changes
\* the value of its argument when it is made, and b with its sub-shifts keeps
\* its value throughout; but the first call returns the object a itself, so
\* the second call accumulates into a: at the end acc is a and holds a + b.
C20_FoldAccumulatesIntoFirst ==
    caller.scenario = "fold" =>
        /\ tpc # "panic"
        /\ \A p \in 0..4 : shiftHeap[<<"b1", p>>] = hist.heap0[<<"b1", p>>]
        /\ item = 1 =>
              /\ shifts["x"] = <<"a1", 0>>
              /\ \A p \in 0..4 : shiftHeap[<<"a1", p>>] = hist.heap0[<<"a1", p>>]
        /\ tpc = "done" =>
              /\ shifts["L"] = <<"a1", 0>>
              /\ ShiftValue(shiftHeap, <<"a1", 0>>)
                    = SumValue(hist.heap0, <<"a1", 0>>, <<"b1", 0>>)

C20_Witness ==
    /\ caller.scenario = "fold"
    /\ tpc = "done"
    /\ shiftHeap[<<"a1", 0>>].kind = "LSTM"
    /\ ShiftValue(shiftHeap, <<"a1", 0>>) # ShiftValue(hist.heap0, <<"a1", 0>>)
    /\ ShiftValue(hist.heap0, <<"a1", 0>>) # ShiftValue(hist.heap0, <<"b1", 0>>)

----------------------------------------------------------------------------
(* Evaluation on its own, on a network of width 2: the baseline            *)
(* getTotalLoss of Train (SpecLoss), and the same preceded by a caller's   *)
(* own calls of Evaluate and GetErrors (SpecEval)                          *)

Linear22 == LinearLayer(2, 2, <<1, 0 - 1, 0, 1>>, <<0, 1>>)

EvalNetworks ==
    {<<SigmoidLayer(2)>>, <<Linear22, SigmoidLayer(2)>>, <<SigmoidLayer(2), Linear22>>}

\* Items with one-hot targets: some the networks get right, some wrong.
EvalSamples ==
    {[in |-> <<0 - One, One>>, out |-> <<0, One>>],
     [in |-> <<One, 0>>, out |-> <<0, One>>],
     [in |-> <<1, 1>>, out |-> <<One, 0>>]}

InitLoss ==
    \E net \in EvalNetworks, n \in 0..MaxTest : \E ts \in [1..n -> EvalSamples] :
        InitWith(net, 0, <<>>, ts)

NextLoss ==
    \/ LossCall
    \/ LossSpawn
    \/ LossSpawnDone
    \/ \E k \in DOMAIN lossgor : GetLossRun(k)
    \/ \E k \in DOMAIN lossgor : RecvLoss(k)
    \/ \E k \in DOMAIN lossgor : RecvCorrect(k)
    \/ LossReturn
    \/ TrainBaselineDone

SpecLoss == InitLoss /\ [][NextLoss]_vars

NextEval ==
    \/ \E t \in DOMAIN testingData : CallEvaluate(t)
    \/ CallGetErrors
    \/ NextLoss

SpecEval == InitLoss /\ [][NextEval]_vars

\* C8 (as claimed): Evaluate leaves the layers and the vector it is given as
\* they were, so two calls on one vector return equal outputs, and an item
\* evaluated by getTotalLoss or GetErrors keeps its Input.
C8_EvaluateIsPure ==
    /\ \A t \in DOMAIN testingData :
          mem[testingData[t].Input] = hist.mem0[testingData[t].Input]
    /\ \A i, j \in DOMAIN caller.evals :
          caller.evals[i].t = caller.evals[j].t =>
              caller.evals[i].out = caller.evals[j].out

\* The getLoss goroutines whose loss, and whose flag, has been received.
LossReceived == {k \in DOMAIN lossgor : lossgor[k].pc \in {"sendCorrect", "done"}}

CorrectReceived == {k \in DOMAIN lossgor : lossgor[k].pc = "done"}

\* C9: getTotalLoss on n items never gets stuck, and when it returns it has
\* received exactly n losses and n flags and every getLoss goroutine it
\* started has completed both sends.
C9_TotalLossDrainsBothChannels ==
    /\ lpc \in {"spawn", "recvLoss", "recvCorrect"} => ENABLED NextLoss
    /\ lpc = "returned" =>
          /\ valuesRecieved = Len(testingData)
          /\ Cardinality(LossReceived) = Len(testingData)
          /\ Cardinality(CorrectReceived) = Len(testingData)
          /\ \A k \in DOMAIN lossgor : lossgor[k].pc = "done"

C9_Witness ==
    /\ lpc = "returned"
    /\ Len(testingData) = 2
    /\ hist.lorder = <<2, 1>>

\* What getLoss computes for item t from the memory getTotalLoss was called
\* with.
ItemOutput(t) == Evaluate(Layers, hist.atCall[testingData[t].Input]).out

\* C10: the count returned is the number of items whose output has its
\* arg-max where the target has it, and the loss returned is the sum of the
\* items' squared errors, in every interleaving.
C10_TotalsMatchItems ==
    lpc = "returned" =>
        /\ correctGuesses =
              Cardinality({t \in DOMAIN testingData :
                              GetMaxIndex(ItemOutput(t)) = GetMaxIndex(testingData[t].Output)})
        /\ loss = SumSeq([t \in DOMAIN testingData |->
                             SquaredError(ItemOutput(t), testingData[t].Output)])

C10_Witness ==
    /\ lpc = "returned"
    /\ Len(testingData) = 2
    /\ correctGuesses = 1
    /\ loss > 0
    /\ hist.lorder = <<2, 1>>

----------------------------------------------------------------------------
(* Construction and persistence, as a caller exercises them: a network is  *)
(* built with Initialize, written with ToBytes, and read back with          *)
(* FromBytes from the bytes written or from a damaged copy of them          *)

\* The largest width and the longest layer list the caller passes to
\* Initialize, and the most bytes cut off a blob.
MaxWidth == 2

MaxLayers == 2

MaxCut == 9

\* The layers a caller constructs: &SigmoidLayer{}, &LinearLayer{Outputs: k}
\* and an LSTM layer of k outputs.
CallerLayers ==
    {SigmoidLayer(0)}
        \cup {LinearLayer(0, k, <<>>, <<>>) : k \in 1..MaxWidth}
        \cup {LSTMLayer(LinearLayer(0, k, <<>>, <<>>), LinearLayer(0, k, <<>>, <<>>),
                        LinearLayer(0, k, <<>>, <<>>), LinearLayer(0, k, <<>>, <<>>)) :
                 k \in 1..MaxWidth}

CallerLayerLists == UNION {[1..n -> CallerLayers] : n \in 0..MaxLayers}

InitCodecWith(n, ls) ==
    /\ caller = [numInputs |-> n, ls |-> ls]
    /\ codec = [IdleCodec EXCEPT !.pc = "new"]
    /\ numInputs = 0
    /\ Layers = <<>>
    /\ BatchSize = 0
    /\ hist = [inits |-> <<>>, saved |-> [numInputs |-> 0, Layers |-> <<>>],
               tamper |-> "none"]
    /\ shiftHeap = <<>>
    /\ shifts = <<>>
    /\ tpc = "idle"
    /\ item = 0
    /\ dataset = <<>>
    /\ testingData = <<>>
    /\ mem = <<>>
    /\ datapointIndex = 0
    /\ epochs = 0
    /\ batches = 0
    /\ gor = <<>>
    /\ lossgor = <<>>
    /\ lpc = "idle"
    /\ loss = 0
    /\ correctGuesses = 0
    /\ valuesRecieved = 0

InitCodec == \E n \in 1..MaxWidth, ls \in CallerLayerLists : InitCodecWith(n, ls)

\* The offsets of the records of a blob that ToBytes wrote.
RECURSIVE RecordOffsets(_, _)
RecordOffsets(bytes, i) ==
    IF i + 8 > Len(bytes) THEN {}
    ELSE {i} \cup RecordOffsets(bytes, i + 8 + BytesToInt(SubSeq(bytes, i + 5, i + 8)))

\* bytes with the int32 at offset o replaced by v.
SetWord(bytes, o, v) ==
    [k \in 1..Len(bytes) |-> IF k \in (o + 1)..(o + 4) THEN IntToBytes(v)[k - o]
                             ELSE bytes[k]]

\* Layer-kind indexes that no layer type has.
UnknownIndexes == {0 - 1, 8}

\* The caller passes on the bytes ToBytes returned ...
KeepBlob ==
    /\ codec' = [codec EXCEPT !.pc = "blob"]
    /\ hist' = [hist EXCEPT !.tamper = "none"]

\* ... or those bytes with the last k cut off ...
TruncateBlob(k) ==
    /\ k <= Len(codec.bytes)
    /\ codec' = [codec EXCEPT !.pc = "blob",
                              !.bytes = SubSeq(@, 1, Len(@) - k)]
    /\ hist' = [hist EXCEPT !.tamper = "truncated"]

\* ... or with the layer-kind index of a record replaced by one no layer
\* type has ...
UnknownKindBlob(o, v) ==
    /\ o \in RecordOffsets(codec.bytes, 4)
    /\ codec' = [codec EXCEPT !.pc = "blob", !.bytes = SetWord(@, o, v)]
    /\ hist' = [hist EXCEPT !.tamper = "unknown index"]

\* ... or with the declared length of a record raised past its payload.
LongerPayloadBlob(o) ==
    /\ o \in RecordOffsets(codec.bytes, 4)
    /\ codec' = [codec EXCEPT !.pc = "blob",
                    !.bytes = SetWord(@, o + 4,
                                      BytesToInt(SubSeq(codec.bytes, o + 5, o + 8)) + 4)]
    /\ hist' = [hist EXCEPT !.tamper = "corrupt"]

\* The argument of network.FromBytes(bytes).
PassBlob ==
    /\ codec.pc = "encoded"
    /\ \/ KeepBlob
       \/ \E k \in 1..MaxCut : TruncateBlob(k)
       \/ \E o \in 0..Len(codec.bytes), v \in UnknownIndexes : UnknownKindBlob(o, v)
       \/ \E o \in 0..Len(codec.bytes) : LongerPayloadBlob(o)
    /\ UNCHANGED <<caller, numInputs, Layers, BatchSize, dataset, testingData, mem,
                   tpc, datapointIndex, epochs, item, shifts, batches, gor,
                   shiftHeap, lossgor, lpc, loss, correctGuesses, valuesRecieved>>

NextCodec ==
    \/ InitializeBegin
    \/ InitializeLayer
    \/ InitializeDone
    \/ CallToBytes
    \/ PassBlob
    \/ FromBytesBegin
    \/ FromBytesLayer
    \/ FromBytesDone

SpecCodec == InitCodec /\ [][NextCodec]_vars

\* A blob is well framed: a four-byte header, then records that each hold
\* a layer-kind index some layer type has and a payload of the declared
\* length, up to the blob's end.
RECURSIVE WellFramedFrom(_, _)
WellFramedFrom(bytes, i) ==
    IF i = Len(bytes) THEN TRUE
    ELSE IF i + 8 > Len(bytes) THEN FALSE
    ELSE LET index      == BytesToInt(SubSeq(bytes, i + 1, i + 4))
             dataLength == BytesToInt(SubSeq(bytes, i + 5, i + 8))
         IN  /\ index \in 0..7
             /\ dataLength >= 0
             /\ i + 8 + dataLength <= Len(bytes)
             /\ WellFramedFrom(bytes, i + 8 + dataLength)

WellFramed(bytes) == Len(bytes) >= 4 /\ WellFramedFrom(bytes, 4)

\* FromBytes has ended, by returning or by a panic.
FromBytesEnded == codec.pc \in {"decoded", "panic"}

\* C12: FromBytes of a blob that is truncated, corrupt in its framing or
\* holds an unknown layer-kind index fails, and leaves the network's
\* numInputs and Layers as they were before the call (no network can be
\* decoded from such a blob), never a prefix of the blob's layers.
C12_FailedDecodeLeavesNoPrefix ==
    (FromBytesEnded /\ ~WellFramed(codec.bytes)) =>
        /\ codec.pc = "panic"
        /\ numInputs = hist.saved.numInputs
        /\ Layers = hist.saved.Layers

\* C13: LayerToIndex(IndexToLayer(k)) = k for every defined index k; every
\* layer variant, LSTM included, has an index that IndexToLayer maps back to
\* the variant; every layer of a network has such an index; and the decoder
\* gets no nil layer for an index out of range.
C13_IndexBijection ==
    /\ \A k \in 0..7 : LayerToIndex(IndexToLayer(k)) = k
    /\ \A kind \in LayerVariants :
          IndexToLayer(LayerToIndex(ZeroLayer(kind))).kind = kind
    /\ \A j \in DOMAIN Layers :
          codec.pc = "ready" => IndexToLayer(LayerToIndex(Layers[j])).kind = Layers[j].kind
    /\ (codec.pc = "decode" /\ ~SliceOutOfRange(codec.bytes, codec.i, codec.i + 8)) =>
          IndexToLayer(ConstantsFromBytes(Slice(codec.bytes, codec.i, codec.i + 8))[1])
              # NilLayer

\* C14: FromBytes of the bytes ToBytes returned ends by returning, with the
\* numInputs and the layers (kind and state) of the network that was
\* written, having read the blob exactly to its end.
C14_RoundTrip ==
    (FromBytesEnded /\ hist.tamper = "none") =>
        /\ codec.pc = "decoded"
        /\ numInputs = hist.saved.numInputs
        /\ Layers = hist.saved.Layers
        /\ codec.i = Len(codec.bytes)

\* Initialize or FromBytes is past its first line and has not panicked.
Chaining == codec.pc \in {"init", "ready", "encoded", "blob", "decode", "decoded"}

\* The layers initialized so far are the first ones of network.Layers,
\* except between ToBytes and the start of FromBytes, where all are.
InitializedSoFar == Len(hist.inits)

\* C15: in Initialize and in FromBytes, the first layer is initialized with
\* numInputs and every later layer with what NumOutputs() of the layer
\* before it returned after that layer's own Initialize, which is what it
\* returns at the end; a Sigmoid layer's NumOutputs() is the width it was
\* initialized with; and at the end every layer has been initialized.
C15_WidthsChained ==
    Chaining =>
        /\ InitializedSoFar <= Len(Layers)
        /\ codec.pc \in {"ready", "decoded"} => InitializedSoFar = Len(Layers)
        /\ \A j \in 1..InitializedSoFar :
              /\ hist.inits[j].given =
                    (IF j = 1 THEN numInputs ELSE hist.inits[j - 1].out)
              /\ hist.inits[j].out = NumOutputs(Layers[j])
              /\ Layers[j].kind = "Sigmoid" => NumOutputs(Layers[j]) = hist.inits[j].given

C15_Witness ==
    /\ codec.pc = "decoded"
    /\ numInputs = 2
    /\ Len(Layers) = 2
    /\ Layers[1].kind = "Sigmoid"
    /\ Layers[2].kind = "Linear"
    /\ hist.inits = <<[given |-> 2, out |-> 2], [given |-> 2, out |-> 1]>>

====
